---- MODULE Spec2Model ----
(***************************************************************************)
(* State-machine model of probe-rs's ArmCommunicationInterface            *)
(* (src/probe-rs/src/architecture/arm/communication_interface.rs).        *)
(*                                                                         *)
(* The interface state (current_dp, dps) is the state of `Initialized`.   *)
(* The probe and the target behind it are modelled as a small piece of    *)
(* hardware: the DP the wire is switched to, one SELECT and one CTRL/STAT  *)
(* register per DP, and a list of access ports per DP.  Every public       *)
(* operation is one action; the transactions it issues on the transport   *)
(* are recorded, in order, in `log`.                                       *)
(***************************************************************************)
EXTENDS Integers, Sequences, FiniteSets, TLC

VARIABLES
    phase,          \* "Uninitialized" | "Initialized" | "Failed" | "Closed"
    current_dp,     \* Initialized.current_dp (None or a DpAddress)
    dps,            \* Initialized.dps : DpAddress -> DpState
    use_overrun_detect,
    hw_dp,          \* the DP the transport is switched to (None: unknown)
    hw_select,      \* per DP: the SELECT register (last value written)
    hw_ctrl,        \* per DP: the CTRL/STAT register
    hw_csw,         \* per DP: the CSW register of each of its APs
    hw_aps,         \* per DP: the access ports the target has (fixed)
    log,            \* transport transactions of the last operation
    last,           \* the last operation: name, arguments, result
    setup_runs,     \* number of debug_port_setup runs so far
    scans,          \* per DP: number of one-time bring-ups started
    faults          \* number of operations a transport failure has struck

vars == << phase, current_dp, dps, use_overrun_detect, hw_dp, hw_select,
           hw_ctrl, hw_csw, hw_aps, log, last, setup_runs, scans, faults >>

---------------------------------------------------------------------------
(* Bounds of the model.                                                    *)

\* Transport transactions 1..MaxFailAt of an operation can be made to fail.
MaxFailAt == 40

\* Transport failures strike at most MaxFaults operations of a run.
MaxFaults == 1

\* Debug ports of the (multi-drop) target.
DPs == {1, 2}

\* Option<DpAddress>::None.
None == 0

---------------------------------------------------------------------------
(* Register addresses and bit fields (ADIv5), as the dp and ap modules     *)
(* declare them.                                                           *)

ABORT_ADDRESS  == 0
CTRL_ADDRESS   == 4
SELECT_ADDRESS == 8
CSW_ADDRESS    == 0
TAR_ADDRESS    == 4
DRW_ADDRESS    == 12
BASE2_ADDRESS  == 240
BASE_ADDRESS   == 248
IDR_ADDRESS    == 252

\* Bits lo .. lo+width-1 of v.
Field(v, lo, width) == (v \div (2 ^ lo)) % (2 ^ width)

\* v with bits lo .. lo+width-1 replaced by the low `width` bits of x.
SetField(v, lo, width, x) ==
    v - Field(v, lo, width) * (2 ^ lo) + (x % (2 ^ width)) * (2 ^ lo)

\* Select: APSEL [31:24], APBANKSEL [7:4], DPBANKSEL [3:0].
ap_sel(select)      == Field(select, 24, 8)
ap_bank_sel(select) == Field(select, 4, 4)
dp_bank_sel(select) == Field(select, 0, 4)
set_ap_sel(select, x)      == SetField(select, 24, 8, x)
set_ap_bank_sel(select, x) == SetField(select, 4, 4, x)
set_dp_bank_sel(select, x) == SetField(select, 0, 4, x)

\* Ctrl: ORUNDETECT bit 0, STICKYERR bit 5.
orun_detect(ctrl) == Field(ctrl, 0, 1) = 1
sticky_err(ctrl)  == Field(ctrl, 5, 1) = 1
set_orun_detect(ctrl, b) == SetField(ctrl, 0, 1, IF b THEN 1 ELSE 0)
set_sticky_err(ctrl, b)  == SetField(ctrl, 5, 1, IF b THEN 1 ELSE 0)

\* Abort: STKERRCLR bit 2.
stkerrclr(abort) == Field(abort, 2, 1) = 1
set_stkerrclr(abort, b) == SetField(abort, 2, 1, IF b THEN 1 ELSE 0)

\* IDR: CLASS [16:13]; class 8 is a Memory AP.
idr_class(idr) == Field(idr, 13, 4)
ApClass_MemAp  == 8

\* CSW: SIZE [2:0], HNONSEC bit 30.  DataSize::U8 = 0, DataSize::U32 = 2.
csw_size(csw)    == Field(csw, 0, 3)
csw_hnonsec(csw) == Field(csw, 30, 1)
DataSize_U8  == 0
DataSize_U32 == 2
\* CSW::new(data_size): HNONSEC set, single address increment, the size.
CSW_new(size) == SetField(SetField(SetField(0, 30, 1, 1), 4, 2, 1), 0, 3, size)

\* BASE: Format bit 1 (1: ADIv5), BASEADDR [31:12].  BASE2: BASEADDR [31:0].
base_format_adiv5(base) == Field(base, 1, 1) = 1
base_baseaddr(base)     == Field(base, 12, 20)

\* x << 12 in a u16: the bits of x above the low four are shifted out.
shl12_u16(x) == (x % (2 ^ 4)) * (2 ^ 12)

\* x << 12 in a u32: the low 20 bits of x, shifted.
shl12_u32(x) == (x % (2 ^ 20)) * (2 ^ 12)

---------------------------------------------------------------------------
(* The target.  An access port is described by the values its registers   *)
(* read: IDR, BASE, BASE2, whether it only does 32-bit transfers, and the  *)
(* component found at its debug base address (read through DRW).          *)

\* Component kinds, as Component::try_parse tells them apart.
COMP_NONE        == 0   \* nothing that parses as a component
COMP_ROM_JEP106  == 1   \* class-1 ROM table, JEP106 code known
COMP_ROM_NO_JEP  == 2   \* class-1 ROM table, no JEP106 code
COMP_OTHER       == 3   \* another component class

IDR_MEM   == 8 * (2 ^ 13) + 1      \* CLASS = MemAp
IDR_OTHER == SetField(0, 4, 4, 1)   \* CLASS = 0 (e.g. a JTAG-AP), non-zero

MemApHw(only32, comp) ==
    [idr |-> IDR_MEM, base |-> 1 * (2 ^ 12) + 3, base2 |-> 0,
     only32 |-> only32, comp |-> comp]
\* A Memory AP whose BASE and BASE2 registers read `base` and `base2`.
MemApHwAt(only32, comp, base, base2) ==
    [idr |-> IDR_MEM, base |-> base, base2 |-> base2,
     only32 |-> only32, comp |-> comp]
OtherApHw ==
    [idr |-> IDR_OTHER, base |-> 0, base2 |-> 0, only32 |-> FALSE,
     comp |-> 0]

\* The AP a SELECT value addresses on DP dp, or 0 when the DP has no such AP.
HwApIndex(m, dp, select) ==
    IF ap_sel(select) < Len(hw_aps[dp]) THEN ap_sel(select) + 1 ELSE 0

\* What a read of the AP register at `addr` returns: the register is the one
\* the DP's SELECT register addresses (APSEL, APBANKSEL), whatever the caller
\* meant.  A read of an AP that does not exist returns zero.
HwApRead(m, addr) ==
    LET dp  == m.hw_dp
        sel == m.hw_select[dp]
        i   == HwApIndex(m, dp, sel)
        reg == ap_bank_sel(sel) * 16 + (addr % 16)
    IN  IF i = 0 THEN 0
        ELSE CASE reg = IDR_ADDRESS   -> hw_aps[dp][i].idr
               [] reg = BASE_ADDRESS  -> hw_aps[dp][i].base
               [] reg = BASE2_ADDRESS -> hw_aps[dp][i].base2
               [] reg = CSW_ADDRESS   -> m.hw_csw[dp][i]
               [] reg = DRW_ADDRESS   -> hw_aps[dp][i].comp
               [] OTHER               -> 0

\* A write of the AP register at `addr`: only CSW is kept.  An AP that only
\* does 32-bit transfers keeps SIZE at U32 whatever is written.
HwApWrite(m, addr, value) ==
    LET dp  == m.hw_dp
        sel == m.hw_select[dp]
        i   == HwApIndex(m, dp, sel)
        reg == ap_bank_sel(sel) * 16 + (addr % 16)
        v   == IF hw_aps[dp][i].only32
               THEN SetField(value, 0, 3, DataSize_U32) ELSE value
    IN  IF i = 0 \/ reg # CSW_ADDRESS THEN m
        ELSE [m EXCEPT !.hw_csw[dp][i] = v]

\* A read of the DP register at `addr`: 0x4 is CTRL/STAT in bank 0.
HwDpRead(m, addr) ==
    LET dp == m.hw_dp
    IN  IF addr % 16 = CTRL_ADDRESS /\ dp_bank_sel(m.hw_select[dp]) = 0
        THEN m.hw_ctrl[dp] ELSE 0

\* A write of the DP register at `addr`: ABORT (0x0) clears the sticky error
\* when STKERRCLR is set, CTRL/STAT (0x4, bank 0) takes the value but keeps
\* its read-only STICKYERR bit, SELECT (0x8) takes the value.
HwDpWrite(m, addr, value) ==
    LET dp == m.hw_dp
        a  == addr % 16
    IN  CASE a = ABORT_ADDRESS /\ stkerrclr(value) ->
                [m EXCEPT !.hw_ctrl[dp] = set_sticky_err(@, FALSE)]
          [] a = CTRL_ADDRESS /\ dp_bank_sel(m.hw_select[dp]) = 0 ->
                [m EXCEPT !.hw_ctrl[dp] =
                     set_sticky_err(value, sticky_err(m.hw_ctrl[dp]))]
          [] a = SELECT_ADDRESS ->
                [m EXCEPT !.hw_select[dp] = value]
          [] OTHER -> m

---------------------------------------------------------------------------
(* The transport.  `m` is the machine an operation works on: the state of  *)
(* the interface and of the target, the transactions issued so far, and   *)
(* the result so far.  m.fail says which transactions of the operation     *)
(* fail: transaction number `at` (0: none), and with `dead` every later    *)
(* one too.                                                                *)

NoFail == [at |-> 0, dead |-> FALSE]

Fails == {NoFail} \cup [at : 1..MaxFailAt, dead : BOOLEAN]

Failing(m) ==
    LET n == Len(m.log) + 1
    IN  m.fail.at # 0 /\ (n = m.fail.at \/ (m.fail.dead /\ n > m.fail.at))

Ok(m) == m.err = "Ok"

\* The failure patterns of F that can strike an operation whose failure-free
\* run issues n transactions: a failure after the last transaction of the run
\* never happens.
FailsOf(F, n) ==
    UNION { {f \in F : f.at <= k /\ (f.at # 0 => faults < MaxFaults)} :
            k \in {n} }

\* Select(0) with the three cached selectors of a DpState set.
SelectOf(dp_state) ==
    set_dp_bank_sel(
        set_ap_bank_sel(
            set_ap_sel(0, dp_state.current_apsel),
            dp_state.current_apbanksel),
        dp_state.current_dpbanksel)

\* The record of one transaction: what was issued (for a read, the value
\* read), by which part of the code, for which DP/AP, the state of the wire
\* at that moment (the DP on the wire and its SELECT register) and the
\* selectors cached for the DP at that moment (zero while it has no DpState).
Entry(m, t, port, addr, value, want) ==
    [t |-> t, port |-> port, addr |-> addr, val |-> value,
     ok |-> ~Failing(m), by |-> m.by, dp |-> want.dp, ap |-> want.ap,
     hw_dp |-> m.hw_dp,
     sel |-> IF m.hw_dp = None THEN 0 ELSE m.hw_select[m.hw_dp],
     cache |-> IF want.dp \in DOMAIN m.dps
               THEN SelectOf(m.dps[want.dp]) ELSE 0]

\* A failed transaction has no effect on the register it names; a failed AP
\* transaction (a FAULT response) leaves the DP's sticky error flag set.
Fault(m, port) ==
    IF port = "AP" /\ m.hw_dp # None
    THEN [m EXCEPT !.hw_ctrl[m.hw_dp] = set_sticky_err(@, TRUE),
                   !.err = "Transport"]
    ELSE [m EXCEPT !.err = "Transport"]

\* RawDapAccess::raw_read_register / raw_read_block
raw_read(m, t, port, addr, want) ==
    LET v  == IF Failing(m) \/ m.hw_dp = None THEN 0
              ELSE IF port = "AP" THEN HwApRead(m, addr)
              ELSE HwDpRead(m, addr)
        m1 == [m EXCEPT !.log = Append(@, Entry(m, t, port, addr, v, want))]
    IN  IF Failing(m) THEN Fault(m1, port) ELSE [m1 EXCEPT !.val = v]

\* RawDapAccess::raw_write_register / raw_write_block
raw_write(m, t, port, addr, value, want) ==
    LET m1 == [m EXCEPT !.log = Append(@, Entry(m, t, port, addr, value, want))]
    IN  IF Failing(m) THEN Fault(m1, port)
        ELSE IF m.hw_dp = None THEN m1
        ELSE IF port = "AP" THEN HwApWrite(m1, addr, value)
        ELSE HwDpWrite(m1, addr, value)

\* DapProbe::select_dp: switch the wire to DP dp.
probe_select_dp(m, dp) ==
    LET want == [dp |-> dp, ap |-> 0]
        m1 == [m EXCEPT !.log = Append(@, Entry(m, "select_dp", "-", 0, dp, want))]
    IN  IF Failing(m) THEN [m1 EXCEPT !.hw_dp = None, !.err = "Transport"]
        ELSE [m1 EXCEPT !.hw_dp = dp]

\* ArmDebugSequence::debug_port_start: one step of the bring-up sequence.
debug_port_start(m, dp) ==
    LET want == [dp |-> dp, ap |-> 0]
        m1 == [m EXCEPT !.log =
                  Append(@, Entry(m, "debug_port_start", "-", 0, dp, want))]
    IN  IF Failing(m) THEN [m1 EXCEPT !.err = "Transport"] ELSE m1

---------------------------------------------------------------------------
(* The interface: ArmCommunicationInterface<Initialized>.                  *)

\* DpState::new()
DpState_new ==
    [debug_port_version |-> "Unsupported",
     current_dpbanksel |-> 0,
     current_apsel |-> 0,
     current_apbanksel |-> 0,
     ap_information |-> << >>]

\* The part of the code a transaction is issued by, for the log.
With(m, by)  == [m EXCEPT !.by = by]
Back(m1, m)  == [m1 EXCEPT !.by = m.by]

\* Sequencing: the machine (or value) v a step leaves, computed once, handed
\* to the rest of the function K.
Then(v, K(_)) == CHOOSE r \in { K(w) : w \in {v} } : TRUE

RECURSIVE select_dp(_, _)
RECURSIVE select_dp_and_dp_bank(_, _, _)
RECURSIVE select_ap_and_ap_bank(_, _, _)
RECURSIVE read_raw_dp_register(_, _, _)
RECURSIVE write_raw_dp_register(_, _, _, _)
RECURSIVE read_raw_ap_register(_, _, _)
RECURSIVE write_raw_ap_register(_, _, _, _)
RECURSIVE valid_access_ports_from(_, _, _)
RECURSIVE read_from_target(_, _)
RECURSIVE scan_access_ports_push_front(_, _, _)
RECURSIVE scan_access_ports(_, _, _)
RECURSIVE valid_access_ports(_, _)

\* The bring-up of a DP that scans the access ports before it sets up the
\* control register.
select_dp_bring_up_scan_first(m, dp) ==
    Then(debug_port_start([m EXCEPT !.dps = (dp :> DpState_new) @@ m.dps,
                                    !.scans[dp] = @ + 1], dp), LAMBDA m4 :
    IF ~Ok(m4) THEN m4 ELSE
    Then(valid_access_ports(m4, dp), LAMBDA m7 :
    Then(scan_access_ports(m7, dp, m7.aps), LAMBDA m8 :
    IF ~Ok(m8) THEN m8 ELSE
    Then(read_raw_dp_register(m8, dp, CTRL_ADDRESS), LAMBDA m5 :
    IF ~Ok(m5) THEN m5 ELSE
    write_raw_dp_register(m5, dp, CTRL_ADDRESS,
        set_orun_detect(m5.val, use_overrun_detect))))))

\* The bring-up of a DP that starts the map of DP states afresh.
select_dp_bring_up_fresh_map(m, dp) ==
    Then(debug_port_start([m EXCEPT !.dps = (dp :> DpState_new),
                                    !.scans[dp] = @ + 1], dp), LAMBDA m4 :
    IF ~Ok(m4) THEN m4 ELSE
    Then(read_raw_dp_register(m4, dp, CTRL_ADDRESS), LAMBDA m5 :
    IF ~Ok(m5) THEN m5 ELSE
    Then(write_raw_dp_register(m5, dp, CTRL_ADDRESS,
             set_orun_detect(m5.val, use_overrun_detect)), LAMBDA m6 :
    IF ~Ok(m6) THEN m6 ELSE
    Then(valid_access_ports(m6, dp), LAMBDA m7 :
    scan_access_ports(m7, dp, m7.aps)))))

\* select_dp, after the DP-select transaction has succeeded, for a DP that has
\* no DpState yet: the one-time bring-up of the DP.
select_dp_bring_up(m, dp) ==
    Then(debug_port_start([m EXCEPT !.dps = (dp :> DpState_new) @@ m.dps,
                                    !.scans[dp] = @ + 1], dp), LAMBDA m4 :
    IF ~Ok(m4) THEN m4 ELSE
    Then(read_raw_dp_register(m4, dp, CTRL_ADDRESS), LAMBDA m5 :
    IF ~Ok(m5) THEN m5 ELSE
    Then(write_raw_dp_register(m5, dp, CTRL_ADDRESS,
             set_orun_detect(m5.val, use_overrun_detect)), LAMBDA m6 :
    IF ~Ok(m6) THEN m6 ELSE
    Then(valid_access_ports(m6, dp), LAMBDA m7 :
    scan_access_ports(m7, dp, m7.aps)))))

\* select_dp with the cache hit of the current DP left out.
select_dp_no_cache_hit(m, dp) ==
    Then(probe_select_dp(m, dp), LAMBDA m1 :
    LET m2 == [m1 EXCEPT !.current_dp = dp]
    IN  IF ~Ok(m1) THEN [m1 EXCEPT !.current_dp = None]
        ELSE IF dp \in DOMAIN m2.dps THEN m2
        ELSE Back(select_dp_bring_up(With(m2, "select_dp"), dp), m))

\* select_dp that leaves current_dp as it was when the selection fails.
select_dp_keeps_current(m, dp) ==
    IF m.current_dp = dp THEN m
    ELSE
        Then(probe_select_dp(m, dp), LAMBDA m1 :
        LET m2 == [m1 EXCEPT !.current_dp = dp]
        IN  IF ~Ok(m1) THEN m1
            ELSE IF dp \in DOMAIN m2.dps THEN m2
            ELSE Back(select_dp_bring_up(With(m2, "select_dp"), dp), m))

\* select_dp that brings a DP up again while it has no access port recorded.
select_dp_rescan(m, dp) ==
    IF m.current_dp = dp THEN m
    ELSE
        Then(probe_select_dp(m, dp), LAMBDA m1 :
        LET m2 == [m1 EXCEPT !.current_dp = dp]
        IN  IF ~Ok(m1) THEN [m1 EXCEPT !.current_dp = None]
            ELSE IF dp \in DOMAIN m2.dps
                    /\ m2.dps[dp].ap_information # << >> THEN m2
            ELSE Back(select_dp_bring_up(With(m2, "select_dp"), dp), m))

\* select_dp that takes the DP as current before the wire is switched and
\* goes on when the switch fails.
select_dp_ignores_failure(m, dp) ==
    IF m.current_dp = dp THEN m
    ELSE
        Then(probe_select_dp(m, dp), LAMBDA m1 :
        LET m2 == [m1 EXCEPT !.current_dp = dp, !.err = "Ok"]
        IN  IF dp \in DOMAIN m2.dps THEN m2
            ELSE Back(select_dp_bring_up(With(m2, "select_dp"), dp), m))

select_dp(m, dp) ==
    IF m.current_dp = dp THEN m
    ELSE
        Then(probe_select_dp(m, dp), LAMBDA m1 :
        LET m2 == [m1 EXCEPT !.current_dp = dp]
        IN  IF ~Ok(m1) THEN [m1 EXCEPT !.current_dp = None]
            ELSE IF dp \in DOMAIN m2.dps THEN m2
            ELSE Back(select_dp_bring_up(With(m2, "select_dp"), dp), m))

\* The loop of select_dp that puts each result at the front of the DP's
\* ap_information.
scan_access_ports_push_front(m, dp, aps) ==
    IF aps = << >> THEN m
    ELSE
        Then(read_from_target(m, [dp |-> dp, ap |-> Head(aps)]), LAMBDA m1 :
        LET m2 == [m1 EXCEPT !.dps[dp].ap_information = << m1.ret >> \o @]
        IN  IF ~Ok(m1) THEN m1
            ELSE scan_access_ports_push_front(m2, dp, Tail(aps)))

\* The loop of select_dp over the valid access ports: classify each and push
\* the result on the DP's ap_information.
scan_access_ports(m, dp, aps) ==
    IF aps = << >> THEN m
    ELSE
        Then(read_from_target(m, [dp |-> dp, ap |-> Head(aps)]), LAMBDA m1 :
        LET m2 == [m1 EXCEPT !.dps[dp].ap_information = Append(@, m1.ret)]
        IN  IF ~Ok(m1) THEN m1
            ELSE scan_access_ports(m2, dp, Tail(aps)))

\* select_dp_and_dp_bank without the early return for the addresses that are
\* not banked.
select_dp_and_dp_bank_any_address(m, dp, dp_register_address) ==
    Then(select_dp(m, dp), LAMBDA m1 :
    LET bank == dp_register_address \div 16
        m2   == [m1 EXCEPT !.dps[dp].current_dpbanksel = bank]
    IN  IF ~Ok(m1) THEN m1
        ELSE IF dp_register_address % 16 = SELECT_ADDRESS THEN m1
        ELSE IF bank # m1.dps[dp].current_dpbanksel
        THEN Back(write_raw_dp_register(With(m2, "select_dp_and_dp_bank"), dp,
                                        SELECT_ADDRESS, SelectOf(m2.dps[dp])),
                  m1)
        ELSE m1)

select_dp_and_dp_bank(m, dp, dp_register_address) ==
    Then(select_dp(m, dp), LAMBDA m1 :
    LET bank == dp_register_address \div 16
        addr == dp_register_address % 16
        m2   == [m1 EXCEPT !.dps[dp].current_dpbanksel = bank]
    IN  IF ~Ok(m1) THEN m1
        ELSE IF addr # 4 THEN m1
        ELSE IF bank # m1.dps[dp].current_dpbanksel
        THEN Back(write_raw_dp_register(With(m2, "select_dp_and_dp_bank"), dp,
                                        SELECT_ADDRESS, SelectOf(m2.dps[dp])),
                  m1)
        ELSE m1)

\* select_ap_and_ap_bank that builds the SELECT value from the AP selectors
\* alone, leaving DPBANKSEL zero.
select_ap_and_ap_bank_drops_dp_bank(m, ap, ap_register_address) ==
    Then(select_dp(m, ap.dp), LAMBDA m1 :
    LET port    == ap.ap
        ap_bank == ap_register_address \div 16
        cache_changed ==
            \/ m1.dps[ap.dp].current_apsel # port
            \/ m1.dps[ap.dp].current_apbanksel # ap_bank
        m2      == [m1 EXCEPT !.dps[ap.dp].current_apsel = port,
                              !.dps[ap.dp].current_apbanksel = ap_bank]
    IN  IF ~Ok(m1) THEN m1
        ELSE IF cache_changed
        THEN Back(write_raw_dp_register(With(m2, "select_ap_and_ap_bank"),
                                        ap.dp, SELECT_ADDRESS,
                                        set_ap_bank_sel(set_ap_sel(0, port),
                                                        ap_bank)),
                  m1)
        ELSE m1)

\* select_ap_and_ap_bank that writes SELECT once for the AP index and once
\* more for the AP bank when both change.
select_ap_and_ap_bank_torn(m, ap, ap_register_address) ==
    Then(select_dp(m, ap.dp), LAMBDA m1 :
    IF ~Ok(m1) THEN m1 ELSE
    LET port    == ap.ap
        ap_bank == ap_register_address \div 16
        sel_changed  == m1.dps[ap.dp].current_apsel # port
        bank_changed == m1.dps[ap.dp].current_apbanksel # ap_bank
        m2      == [m1 EXCEPT !.dps[ap.dp].current_apsel = port]
    IN  Then(IF sel_changed
             THEN write_raw_dp_register(With(m2, "select_ap_and_ap_bank"),
                      ap.dp, SELECT_ADDRESS, SelectOf(m2.dps[ap.dp]))
             ELSE m2, LAMBDA m3 :
        IF ~Ok(m3) THEN Back(m3, m1) ELSE
        LET m4 == [m3 EXCEPT !.dps[ap.dp].current_apbanksel = ap_bank]
        IN  IF bank_changed
            THEN Back(write_raw_dp_register(With(m4, "select_ap_and_ap_bank"),
                          ap.dp, SELECT_ADDRESS, SelectOf(m4.dps[ap.dp])), m1)
            ELSE Back(m4, m1)))

select_ap_and_ap_bank(m, ap, ap_register_address) ==
    Then(select_dp(m, ap.dp), LAMBDA m1 :
    LET port    == ap.ap
        ap_bank == ap_register_address \div 16
        cache_changed ==
            \/ m1.dps[ap.dp].current_apsel # port
            \/ m1.dps[ap.dp].current_apbanksel # ap_bank
        m2      == [m1 EXCEPT !.dps[ap.dp].current_apsel = port,
                              !.dps[ap.dp].current_apbanksel = ap_bank]
    IN  IF ~Ok(m1) THEN m1
        ELSE IF cache_changed
        THEN Back(write_raw_dp_register(With(m2, "select_ap_and_ap_bank"),
                                        ap.dp, SELECT_ADDRESS,
                                        SelectOf(m2.dps[ap.dp])),
                  m1)
        ELSE m1)

\* impl DapAccess
read_raw_dp_register(m, dp, address) ==
    Then(select_dp_and_dp_bank(m, dp, address), LAMBDA m1 :
    IF ~Ok(m1) THEN m1
    ELSE raw_read(m1, "read", "DP", address, [dp |-> dp, ap |-> 0]))

write_raw_dp_register(m, dp, address, value) ==
    Then(select_dp_and_dp_bank(m, dp, address), LAMBDA m1 :
    IF ~Ok(m1) THEN m1
    ELSE raw_write(m1, "write", "DP", address, value, [dp |-> dp, ap |-> 0]))

read_raw_ap_register(m, ap, address) ==
    Then(select_ap_and_ap_bank(m, ap, address), LAMBDA m1 :
    IF ~Ok(m1) THEN m1
    ELSE raw_read(m1, "read", "AP", address, ap))

read_raw_ap_register_repeated(m, ap, address) ==
    Then(select_ap_and_ap_bank(m, ap, address), LAMBDA m1 :
    IF ~Ok(m1) THEN m1
    ELSE raw_read(m1, "read_block", "AP", address, ap))

write_raw_ap_register(m, ap, address, value) ==
    Then(select_ap_and_ap_bank(m, ap, address), LAMBDA m1 :
    IF ~Ok(m1) THEN m1
    ELSE raw_write(m1, "write", "AP", address, value, ap))

write_raw_ap_register_repeated(m, ap, address, value) ==
    Then(select_ap_and_ap_bank(m, ap, address), LAMBDA m1 :
    IF ~Ok(m1) THEN m1
    ELSE raw_write(m1, "write_block", "AP", address, value, ap))

\* valid_access_ports: the APs 0, 1, ... of the DP up to the first one whose
\* IDR reads zero or cannot be read (the error is dropped: the function
\* returns a plain list).  The list is left in m.aps; it is this call's own
\* list, whatever the IDR read did underneath (the first read of a DP brings
\* the DP up, which enumerates its APs too).
LAST_AP == 255

valid_access_ports_from(m, dp, i) ==
    Then(read_raw_ap_register(m, [dp |-> dp, ap |-> i], IDR_ADDRESS),
         LAMBDA m1 :
    IF ~Ok(m1) THEN [m1 EXCEPT !.err = "Ok", !.aps = m.aps]
    ELSE IF m1.val = 0 THEN [m1 EXCEPT !.aps = m.aps]
    ELSE IF i = LAST_AP THEN [m1 EXCEPT !.aps = Append(m.aps, i)]
    ELSE valid_access_ports_from([m1 EXCEPT !.aps = Append(m.aps, i)],
                                 dp, i + 1))

valid_access_ports(m, dp) ==
    Back(valid_access_ports_from(With([m EXCEPT !.aps = << >>],
                                      "valid_access_ports"), dp, 0), m)

\* read_from_target that leaves the CSW value read back after the probe in
\* the AP instead of the value saved before it.
read_from_target_keeps_probe_csw(m, access_port) ==
    Back(
    Then(read_raw_ap_register(With(m, "read_from_target"), access_port,
                              IDR_ADDRESS), LAMBDA m1 :
    IF ~Ok(m1) THEN m1
    ELSE IF idr_class(m1.val) # ApClass_MemAp
    THEN [m1 EXCEPT !.ret = [kind |-> "Other", address |-> access_port]]
    ELSE
    Then(read_raw_ap_register(m1, access_port, BASE_ADDRESS), LAMBDA m2 :
    IF ~Ok(m2) THEN m2 ELSE
    LET base_register == m2.val
        adiv5 == base_format_adiv5(base_register)
    IN
    Then(IF adiv5
         THEN read_raw_ap_register(m2, access_port, BASE2_ADDRESS)
         ELSE m2, LAMBDA m3 :
    IF ~Ok(m3) THEN m3 ELSE
    LET base_address ==
            [hi |-> IF adiv5 THEN m3.val ELSE 0,
             lo |-> shl12_u32(base_baseaddr(base_register))]
    IN
    Then(read_raw_ap_register(m3, access_port, CSW_ADDRESS), LAMBDA m4 :
    IF ~Ok(m4) THEN m4 ELSE
    LET old_csw == m4.val
    IN
    Then(write_raw_ap_register(m4, access_port, CSW_ADDRESS,
                               CSW_new(DataSize_U8)), LAMBDA m5 :
    IF ~Ok(m5) THEN m5 ELSE
    Then(read_raw_ap_register(m5, access_port, CSW_ADDRESS), LAMBDA m6 :
    IF ~Ok(m6) THEN m6 ELSE
    LET csw == m6.val
    IN
    Then(write_raw_ap_register(m6, access_port, CSW_ADDRESS, csw),
         LAMBDA m7 :
    IF ~Ok(m7) THEN m7 ELSE
    [m7 EXCEPT !.ret =
        [kind |-> "MemoryAp",
         address |-> access_port,
         only_32bit_data_size |-> csw_size(csw) # DataSize_U8,
         debug_base_address |-> base_address,
         supports_hnonsec |-> csw_hnonsec(csw) = 1]]))))))),
    m)

\* read_from_target that writes the saved CSW value back before it returns
\* the error of a failed read-back.
read_from_target_restores_on_error(m, access_port) ==
    Back(
    Then(read_raw_ap_register(With(m, "read_from_target"), access_port,
                              IDR_ADDRESS), LAMBDA m1 :
    IF ~Ok(m1) THEN m1
    ELSE IF idr_class(m1.val) # ApClass_MemAp
    THEN [m1 EXCEPT !.ret = [kind |-> "Other", address |-> access_port]]
    ELSE
    Then(read_raw_ap_register(m1, access_port, BASE_ADDRESS), LAMBDA m2 :
    IF ~Ok(m2) THEN m2 ELSE
    LET base_register == m2.val
        adiv5 == base_format_adiv5(base_register)
    IN
    Then(IF adiv5
         THEN read_raw_ap_register(m2, access_port, BASE2_ADDRESS)
         ELSE m2, LAMBDA m3 :
    IF ~Ok(m3) THEN m3 ELSE
    LET base_address ==
            [hi |-> IF adiv5 THEN m3.val ELSE 0,
             lo |-> shl12_u32(base_baseaddr(base_register))]
    IN
    Then(read_raw_ap_register(m3, access_port, CSW_ADDRESS), LAMBDA m4 :
    IF ~Ok(m4) THEN m4 ELSE
    LET old_csw == m4.val
    IN
    Then(write_raw_ap_register(m4, access_port, CSW_ADDRESS,
                               CSW_new(DataSize_U8)), LAMBDA m5 :
    IF ~Ok(m5) THEN m5 ELSE
    Then(read_raw_ap_register(m5, access_port, CSW_ADDRESS), LAMBDA m6 :
    IF ~Ok(m6)
    THEN [write_raw_ap_register([m6 EXCEPT !.err = "Ok"], access_port,
                                CSW_ADDRESS, old_csw)
            EXCEPT !.err = m6.err, !.by = m.by]
    ELSE
    LET csw == m6.val
    IN
    Then(write_raw_ap_register(m6, access_port, CSW_ADDRESS, old_csw),
         LAMBDA m7 :
    IF ~Ok(m7) THEN m7 ELSE
    [m7 EXCEPT !.ret =
        [kind |-> "MemoryAp",
         address |-> access_port,
         only_32bit_data_size |-> csw_size(csw) # DataSize_U8,
         debug_base_address |-> base_address,
         supports_hnonsec |-> csw_hnonsec(csw) = 1]]))))))),
    m)

\* ApInformation::read_from_target; the result is left in m.ret.
read_from_target(m, access_port) ==
    Back(
    Then(read_raw_ap_register(With(m, "read_from_target"), access_port,
                              IDR_ADDRESS), LAMBDA m1 :
    IF ~Ok(m1) THEN m1
    ELSE IF idr_class(m1.val) # ApClass_MemAp
    THEN [m1 EXCEPT !.ret = [kind |-> "Other", address |-> access_port]]
    ELSE
    Then(read_raw_ap_register(m1, access_port, BASE_ADDRESS), LAMBDA m2 :
    IF ~Ok(m2) THEN m2 ELSE
    LET base_register == m2.val
        adiv5 == base_format_adiv5(base_register)
    IN
    Then(IF adiv5
         THEN read_raw_ap_register(m2, access_port, BASE2_ADDRESS)
         ELSE m2, LAMBDA m3 :
    IF ~Ok(m3) THEN m3 ELSE
    LET base_address ==
            [hi |-> IF adiv5 THEN m3.val ELSE 0,
             lo |-> shl12_u32(base_baseaddr(base_register))]
    IN
    Then(read_raw_ap_register(m3, access_port, CSW_ADDRESS), LAMBDA m4 :
    IF ~Ok(m4) THEN m4 ELSE
    LET old_csw == m4.val
    IN
    Then(write_raw_ap_register(m4, access_port, CSW_ADDRESS,
                               CSW_new(DataSize_U8)), LAMBDA m5 :
    IF ~Ok(m5) THEN m5 ELSE
    Then(read_raw_ap_register(m5, access_port, CSW_ADDRESS), LAMBDA m6 :
    IF ~Ok(m6) THEN m6 ELSE
    LET csw == m6.val
    IN
    Then(write_raw_ap_register(m6, access_port, CSW_ADDRESS, old_csw),
         LAMBDA m7 :
    IF ~Ok(m7) THEN m7 ELSE
    [m7 EXCEPT !.ret =
        [kind |-> "MemoryAp",
         address |-> access_port,
         only_32bit_data_size |-> csw_size(csw) # DataSize_U8,
         debug_base_address |-> base_address,
         supports_hnonsec |-> csw_hnonsec(csw) = 1]]))))))),
    m)

\* ap_information that reports an AP missing from the list as a failure of
\* the transport.
ap_information_miss_is_transport(m, access_port) ==
    Then(select_dp(m, access_port.dp), LAMBDA m1 :
    LET state == m1.dps[access_port.dp]
    IN  IF ~Ok(m1) THEN m1
        ELSE IF access_port.ap < Len(state.ap_information)
        THEN [m1 EXCEPT !.ret = state.ap_information[access_port.ap + 1]]
        ELSE [m1 EXCEPT !.err = "Transport"])

\* ap_information: the stored classification of an AP.
ap_information(m, access_port) ==
    Then(select_dp(m, access_port.dp), LAMBDA m1 :
    LET state == m1.dps[access_port.dp]
    IN  IF ~Ok(m1) THEN m1
        ELSE IF access_port.ap < Len(state.ap_information)
        THEN [m1 EXCEPT !.ret = state.ap_information[access_port.ap + 1]]
        ELSE [m1 EXCEPT !.err = "ApDoesNotExist"])

\* num_access_ports
num_access_ports(m, dp) ==
    Then(select_dp(m, dp), LAMBDA m1 :
    IF ~Ok(m1) THEN m1
    ELSE [m1 EXCEPT !.ret = [kind |-> "Count",
                             n |-> Len(m1.dps[dp].ap_information)]])

\* memory_interface that hands out a handle whatever the class of the AP.
memory_interface_for_any_ap(m, access_port) ==
    Then(ap_information(m, access_port), LAMBDA m1 :
    LET info == m1.ret
    IN  IF ~Ok(m1) THEN [m1 EXCEPT !.err = "FailedToGetInformation"]
        ELSE [m1 EXCEPT !.ret = [kind |-> "Memory", information |-> info]])

\* memory_interface: a handle for a Memory AP.  Every error of
\* ap_information is replaced by "Failed to get information for AP".
memory_interface(m, access_port) ==
    Then(ap_information(m, access_port), LAMBDA m1 :
    LET info == m1.ret
    IN  IF ~Ok(m1) THEN [m1 EXCEPT !.err = "FailedToGetInformation"]
        ELSE IF info.kind = "MemoryAp"
        THEN [m1 EXCEPT !.ret = [kind |-> "Memory", information |-> info]]
        ELSE [m1 EXCEPT !.err = "NotMemoryAp"])

\* MemoryAp::base_address: BASE, and BASE2 when BASE has the ADIv5 format.
base_address(m, access_port) ==
    Then(read_raw_ap_register(m, access_port, BASE_ADDRESS), LAMBDA m2 :
    IF ~Ok(m2) THEN m2 ELSE
    LET adiv5 == base_format_adiv5(m2.val)
    IN
    Then(IF adiv5
         THEN read_raw_ap_register(m2, access_port, BASE2_ADDRESS)
         ELSE m2, LAMBDA m3 :
    IF ~Ok(m3) THEN m3
    ELSE [m3 EXCEPT !.ret = [hi |-> IF adiv5 THEN m3.val ELSE 0,
                             lo |-> shl12_u32(base_baseaddr(m2.val))]]))

\* Component::try_parse through the memory handle: the address goes to TAR,
\* the component is read through DRW.  The result is left in m.val.
component_try_parse(m, access_port, baseaddr) ==
    Then(write_raw_ap_register(m, access_port, TAR_ADDRESS, baseaddr.lo),
         LAMBDA m1 :
    IF ~Ok(m1) THEN m1
    ELSE read_raw_ap_register(m1, access_port, DRW_ADDRESS))

RECURSIVE rom_table_scan(_, _, _)
RECURSIVE rom_table_scan_last_match(_, _, _, _)

\* The loop of read_from_rom_table that goes on after a match and returns the
\* last one (`found` is the match so far, a result record).
rom_table_scan_last_match(m, dp, aps, found) ==
    IF aps = << >> THEN [m EXCEPT !.ret = found]
    ELSE
    LET access_port == [dp |-> dp, ap |-> Head(aps)]
    IN
    Then(read_raw_ap_register(m, access_port, IDR_ADDRESS), LAMBDA m1 :
    IF ~Ok(m1) THEN [m1 EXCEPT !.err = "Probe"]
    ELSE IF idr_class(m1.val) # ApClass_MemAp
    THEN rom_table_scan_last_match(m1, dp, Tail(aps), found)
    ELSE
    Then(base_address(m1, access_port), LAMBDA m2 :
    IF ~Ok(m2) THEN [m2 EXCEPT !.err = "Probe"] ELSE
    LET baseaddr == m2.ret
    IN
    Then(memory_interface(m2, access_port), LAMBDA m3 :
    IF ~Ok(m3) THEN [m3 EXCEPT !.err = "ArchitectureSpecific"] ELSE
    Then(component_try_parse(m3, access_port, baseaddr), LAMBDA m4 :
    IF ~Ok(m4) THEN [m4 EXCEPT !.err = "ArchitectureSpecific"]
    ELSE rom_table_scan_last_match(m4, dp, Tail(aps),
             IF m4.val = COMP_ROM_JEP106
             THEN [kind |-> "Some", ap |-> Head(aps)] ELSE found)))))

rom_table_scan_to_the_end(m, dp, aps) ==
    rom_table_scan_last_match(m, dp, aps, [kind |-> "None"])

\* The loop of read_from_rom_table over the valid access ports.
rom_table_scan(m, dp, aps) ==
    IF aps = << >> THEN [m EXCEPT !.ret = [kind |-> "None"]]
    ELSE
    LET access_port == [dp |-> dp, ap |-> Head(aps)]
    IN
    Then(read_raw_ap_register(m, access_port, IDR_ADDRESS), LAMBDA m1 :
    IF ~Ok(m1) THEN [m1 EXCEPT !.err = "Probe"]
    ELSE IF idr_class(m1.val) # ApClass_MemAp
    THEN rom_table_scan(m1, dp, Tail(aps))
    ELSE
    Then(base_address(m1, access_port), LAMBDA m2 :
    IF ~Ok(m2) THEN [m2 EXCEPT !.err = "Probe"] ELSE
    LET baseaddr == m2.ret
    IN
    Then(memory_interface(m2, access_port), LAMBDA m3 :
    IF ~Ok(m3) THEN [m3 EXCEPT !.err = "ArchitectureSpecific"] ELSE
    Then(component_try_parse(m3, access_port, baseaddr), LAMBDA m4 :
    IF ~Ok(m4) THEN [m4 EXCEPT !.err = "ArchitectureSpecific"]
    ELSE IF m4.val = COMP_ROM_JEP106
    THEN [m4 EXCEPT !.ret = [kind |-> "Some", ap |-> Head(aps)]]
    ELSE rom_table_scan(m4, dp, Tail(aps))))))

\* read_from_rom_table without the ABORT write.
read_from_rom_table_no_abort(m, dp) ==
    Back(
    Then(valid_access_ports(With(m, "read_from_rom_table"), dp), LAMBDA m1 :
    Then(read_raw_dp_register(m1, dp, CTRL_ADDRESS), LAMBDA m2 :
    IF ~Ok(m2) THEN [m2 EXCEPT !.err = "ArchitectureSpecific"]
    ELSE rom_table_scan(m2, dp, m1.aps))),
    m)

\* read_from_rom_table
read_from_rom_table(m, dp) ==
    Back(
    Then(valid_access_ports(With(m, "read_from_rom_table"), dp), LAMBDA m1 :
    LET aps == m1.aps
    IN
    Then(read_raw_dp_register(m1, dp, CTRL_ADDRESS), LAMBDA m2 :
    IF ~Ok(m2) THEN [m2 EXCEPT !.err = "ArchitectureSpecific"] ELSE
    LET ctrl_reg == m2.val
    IN
    Then(IF sticky_err(ctrl_reg)
         THEN write_raw_dp_register(m2, dp, ABORT_ADDRESS,
                                    set_stkerrclr(0, TRUE))
         ELSE m2, LAMBDA m3 :
    IF ~Ok(m3) THEN [m3 EXCEPT !.err = "ArchitectureSpecific"]
    ELSE rom_table_scan(m3, dp, aps)))),
    m)

---------------------------------------------------------------------------
(* Type-state initialization.                                              *)

\* ArmDebugSequence::debug_port_setup on the raw probe.
debug_port_setup(m) ==
    LET want == [dp |-> None, ap |-> 0]
        m1 == [m EXCEPT !.log =
                  Append(@, Entry(m, "debug_port_setup", "-", 0, 0, want))]
    IN  IF Failing(m) THEN [m1 EXCEPT !.err = "Transport"] ELSE m1

\* Initialized::new
Initialized_new(m) == [m EXCEPT !.current_dp = None, !.dps = << >>]

\* from_uninitialized (through into_initialized)
from_uninitialized(m) == Initialized_new(m)

\* initialize that runs debug_port_setup a second time when it fails.
initialize_retry(m) ==
    Then(debug_port_setup(m), LAMBDA m1 :
    Then(IF Ok(m1) THEN m1
         ELSE debug_port_setup([m1 EXCEPT !.err = "Ok"]), LAMBDA m2 :
    IF ~Ok(m2) THEN m2 ELSE from_uninitialized(m2)))

\* UninitializedArmProbe::initialize
initialize(m) ==
    Then(debug_port_setup(m), LAMBDA m1 :
    IF ~Ok(m1) THEN m1 ELSE from_uninitialized(m1))

\* UninitializedArmProbe::read_dpidr
read_dpidr(m) ==
    raw_read(m, "read", "DP", 0, [dp |-> None, ap |-> 0])

---------------------------------------------------------------------------
(* The state machine.                                                      *)

\* What a caller asks for.  DP 1 is the port the caller works on, with every
\* kind of register; DP 2 is a second port of the multi-drop target the
\* caller switches to and back.  The accesses are DP registers (0x4 is
\* banked: CTRL/STAT in bank 0), AP registers of the two APs of DP 1 and of
\* an AP that DP 2 does not have, in two banks, and block transfers through
\* DRW.

\* The value the caller writes; as SELECT it has APSEL 1 and DPBANKSEL 1.
CALLER_VALUE == set_dp_bank_sel(set_ap_sel(0, 1), 1)
WriteValues == {CALLER_VALUE}

ApAddrs ==
    { [dp |-> 1, ap |-> 0], [dp |-> 1, ap |-> 1], [dp |-> 2, ap |-> 0] }

\* Every kind of access, a write of SELECT itself included.
AllAccesses ==
    [dp_read  |-> { [dp |-> 1, address |-> 0],  [dp |-> 1, address |-> 4],
                    [dp |-> 1, address |-> 8],  [dp |-> 1, address |-> 12],
                    [dp |-> 1, address |-> 20],
                    [dp |-> 2, address |-> 4],  [dp |-> 2, address |-> 8] },
     dp_write |-> { [dp |-> 1, address |-> 0],
                    [dp |-> 1, address |-> SELECT_ADDRESS],
                    [dp |-> 1, address |-> 20],
                    [dp |-> 2, address |-> 12] },
     ap_read  |-> [ap : ApAddrs, address : {TAR_ADDRESS, IDR_ADDRESS}],
     ap_write |-> [ap : ApAddrs, address : {TAR_ADDRESS, IDR_ADDRESS}],
     block    |-> [ap : ApAddrs, address : {DRW_ADDRESS}],
     aps      |-> ApAddrs,
     dps      |-> DPs]

\* The accesses that change the selection in every way (DP, DP bank, AP, AP
\* bank), one DP write, one AP write and block transfers on one AP; no write of
\* SELECT by the caller.
SelectionAccesses ==
    [dp_read  |-> { [dp |-> 1, address |-> 4], [dp |-> 1, address |-> 20],
                    [dp |-> 2, address |-> 8] },
     dp_write |-> { [dp |-> 1, address |-> 0] },
     ap_read  |-> [ap : ApAddrs, address : {TAR_ADDRESS, IDR_ADDRESS}],
     ap_write |-> { [ap |-> [dp |-> 1, ap |-> 1], address |-> TAR_ADDRESS] },
     block    |-> { [ap |-> [dp |-> 1, ap |-> 1], address |-> DRW_ADDRESS] },
     aps      |-> ApAddrs,
     dps      |-> DPs]

\* The CSW value an AP holds before anything is written: SIZE = U32, DeviceEn.
CSW_RESET == SetField(SetField(0, 0, 3, DataSize_U32), 6, 1, 1)

\* Targets the model is run on.
Topologies ==
    { (1 :> << OtherApHw, MemApHw(FALSE, COMP_ROM_JEP106) >>) @@ (2 :> << >>) }

\* BASE register values: the legacy format (Format bit clear) and the ADIv5
\* format (Format and Present bits set), with a low and a high BASEADDR.
BASE_LEGACY  == 1 * (2 ^ 12) + 1
BASE_ADIV5   == 1 * (2 ^ 12) + 3
BASE_HIGH    == ((2 ^ 19) - 1) * (2 ^ 12) + 3

\* Targets for the classification and the ROM-table walk: several Memory
\* APs of which the third and the fourth hold an identifiable ROM table; a
\* 32-bit-only Memory AP with a legacy BASE (its BASE2 must not be read) next
\* to another AP class; a single Memory AP with a high debug base address and
\* nothing that parses as a component behind it.
ScanTopologies ==
    { (1 :> << OtherApHw,
               MemApHwAt(FALSE, COMP_ROM_NO_JEP, BASE_ADIV5, 1),
               MemApHwAt(FALSE, COMP_ROM_JEP106, BASE_ADIV5, 0),
               MemApHwAt(FALSE, COMP_ROM_JEP106, BASE_ADIV5, 0) >>)
          @@ (2 :> << >>),
      (1 :> << MemApHwAt(TRUE, COMP_OTHER, BASE_LEGACY, 1), OtherApHw >>)
          @@ (2 :> << >>),
      (1 :> << MemApHwAt(FALSE, COMP_NONE, BASE_HIGH, 1) >>)
          @@ (2 :> << >>) }

\* CSW values the APs hold before the interface touches them.
CSW_PROGRAMMED == SetField(SetField(CSW_RESET, 4, 2, 1), 24, 7, 35)
CswValues == {CSW_RESET, CSW_PROGRAMMED, CSW_new(DataSize_U8)}

\* The accesses of a caller that works on DP 1 of these targets.
ScanAccesses ==
    [dp_read  |-> { [dp |-> 1, address |-> 4] },
     dp_write |-> { [dp |-> 1, address |-> 0] },
     ap_read  |-> { [ap |-> [dp |-> 1, ap |-> 1], address |-> IDR_ADDRESS] },
     ap_write |-> { [ap |-> [dp |-> 1, ap |-> 1], address |-> TAR_ADDRESS] },
     block    |-> { [ap |-> [dp |-> 1, ap |-> 1], address |-> DRW_ADDRESS] },
     aps      |-> { [dp |-> 1, ap |-> 0], [dp |-> 1, ap |-> 2] },
     dps      |-> {1}]

\* The overrun-detect preference the interface is built with, and the
\* CTRL/STAT value the DPs hold at that time: either the preference is set
\* and CTRL/STAT is clear, or the preference is not set and CTRL/STAT has
\* ORUNDETECT and a sticky error left from before.
Configs ==
    { [orun |-> TRUE,  ctrl |-> [dp \in DPs |-> 0]],
      [orun |-> FALSE, ctrl |-> [dp \in DPs |->
                                   set_sticky_err(set_orun_detect(0, TRUE), TRUE)]] }

NoRet == [kind |-> "Unit"]

\* `last` while no operation's result is held by the caller.
NoOp == [op |-> "none", dp |-> None, ap |-> 0, addr |-> 0, val |-> 0,
         res |-> "Ok", ret |-> NoRet, read |-> 0,
         pre_dp |-> None, pre_dps |-> << >>, pre_csw |-> << >>]

Idle == last.op = "none"

\* The machine an operation starts on.
Machine(fail) ==
    [current_dp |-> current_dp, dps |-> dps, hw_dp |-> hw_dp,
     hw_select |-> hw_select, hw_ctrl |-> hw_ctrl, hw_csw |-> hw_csw,
     scans |-> scans, log |-> << >>, err |-> "Ok", val |-> 0, ret |-> NoRet,
     aps |-> << >>, fail |-> fail, by |-> "caller"]

\* The operations that return a register value, and those that return ().
ValueOps ==
    { "read_dpidr", "read_raw_dp_register", "read_raw_ap_register",
      "read_raw_ap_register_repeated" }
UnitOps ==
    { "initialize", "write_raw_dp_register", "write_raw_ap_register",
      "write_raw_ap_register_repeated" }

\* The state an operation leaves, and the record of the operation.
Do(m, op, dp, ap, addr, value) ==
    /\ current_dp' = m.current_dp
    /\ dps' = m.dps
    /\ hw_dp' = m.hw_dp
    /\ hw_select' = m.hw_select
    /\ hw_ctrl' = m.hw_ctrl
    /\ hw_csw' = m.hw_csw
    /\ scans' = m.scans
    /\ log' = m.log
    /\ last' = [op |-> op, dp |-> dp, ap |-> ap, addr |-> addr, val |-> value,
                res |-> m.err,
                ret |-> IF ~Ok(m) \/ op \in UnitOps THEN NoRet
                        ELSE IF op \in ValueOps THEN [kind |-> "Value"]
                        ELSE m.ret,
                read |-> IF Ok(m) /\ op \in ValueOps THEN m.val ELSE 0,
                pre_dp |-> current_dp, pre_dps |-> dps, pre_csw |-> hw_csw]
    /\ faults' = IF \E i \in 1..Len(m.log) : ~m.log[i].ok
                 THEN faults + 1 ELSE faults
    /\ UNCHANGED << use_overrun_detect, hw_aps >>

\* The state after construction, on one of the targets T whose APs hold one of
\* the CSW values V.
InitWith(T, V) ==
    /\ phase = "Uninitialized"
    /\ current_dp = None
    /\ dps = << >>
    /\ \E c \in Configs : use_overrun_detect = c.orun /\ hw_ctrl = c.ctrl
    /\ hw_dp = None
    /\ hw_select = [dp \in DPs |-> 0]
    /\ hw_aps \in T
    /\ \E v \in V :
          hw_csw = [dp \in DPs |-> [i \in 1..Len(hw_aps[dp]) |->
                       IF hw_aps[dp][i].only32
                       THEN SetField(v, 0, 3, DataSize_U32) ELSE v]]
    /\ log = << >>
    /\ last = NoOp
    /\ setup_runs = 0
    /\ scans = [dp \in DPs |-> 0]
    /\ faults = 0

Init == InitWith(Topologies, {CSW_RESET})

\* initialize(sequence): consumes the Uninitialized interface.
Initialize(F) ==
    /\ phase = "Uninitialized" /\ Idle
    /\ \E fail \in FailsOf(F, Len(initialize(Machine(NoFail)).log)) :
        \E m \in {initialize(Machine(fail))} :
            /\ Do(m, "initialize", None, 0, 0, 0)
            /\ phase' = IF Ok(m) THEN "Initialized" ELSE "Failed"
            /\ setup_runs' = setup_runs + 1

ReadDpidr(F) ==
    /\ phase = "Uninitialized" /\ Idle
    /\ \E fail \in FailsOf(F, Len(read_dpidr(Machine(NoFail)).log)) :
        \E m \in {read_dpidr(Machine(fail))} :
            Do(m, "read_dpidr", None, 0, 0, 0)
    /\ UNCHANGED << phase, setup_runs >>

ReadRawDpRegister(F, A) ==
    /\ phase = "Initialized" /\ Idle
    /\ \E r \in A.dp_read :
        \E fail \in FailsOf(F,
                Len(read_raw_dp_register(Machine(NoFail), r.dp, r.address).log)) :
            \E m \in {read_raw_dp_register(Machine(fail), r.dp, r.address)} :
                Do(m, "read_raw_dp_register", r.dp, 0, r.address, 0)
    /\ UNCHANGED << phase, setup_runs >>

WriteRawDpRegister(F, A) ==
    /\ phase = "Initialized" /\ Idle
    /\ \E r \in A.dp_write, value \in WriteValues :
        \E fail \in FailsOf(F,
                Len(write_raw_dp_register(Machine(NoFail), r.dp, r.address,
                                          value).log)) :
            \E m \in {write_raw_dp_register(Machine(fail), r.dp,
                        r.address, value)} :
                Do(m, "write_raw_dp_register", r.dp, 0, r.address, value)
    /\ UNCHANGED << phase, setup_runs >>

ReadRawApRegister(F, A) ==
    /\ phase = "Initialized" /\ Idle
    /\ \E r \in A.ap_read :
        \E fail \in FailsOf(F,
                Len(read_raw_ap_register(Machine(NoFail), r.ap, r.address).log)) :
            \E m \in {read_raw_ap_register(Machine(fail), r.ap, r.address)} :
                Do(m, "read_raw_ap_register", r.ap.dp, r.ap.ap, r.address, 0)
    /\ UNCHANGED << phase, setup_runs >>

ReadRawApRegisterRepeated(F, A) ==
    /\ phase = "Initialized" /\ Idle
    /\ \E r \in A.block :
        \E fail \in FailsOf(F,
                Len(read_raw_ap_register_repeated(Machine(NoFail), r.ap,
                                                  r.address).log)) :
            \E m \in {read_raw_ap_register_repeated(Machine(fail), r.ap,
                        r.address)} :
                Do(m, "read_raw_ap_register_repeated",
                   r.ap.dp, r.ap.ap, r.address, 0)
    /\ UNCHANGED << phase, setup_runs >>

WriteRawApRegister(F, A) ==
    /\ phase = "Initialized" /\ Idle
    /\ \E r \in A.ap_write, value \in WriteValues :
        \E fail \in FailsOf(F,
                Len(write_raw_ap_register(Machine(NoFail), r.ap, r.address,
                                          value).log)) :
            \E m \in {write_raw_ap_register(Machine(fail), r.ap,
                        r.address, value)} :
                Do(m, "write_raw_ap_register",
                   r.ap.dp, r.ap.ap, r.address, value)
    /\ UNCHANGED << phase, setup_runs >>

WriteRawApRegisterRepeated(F, A) ==
    /\ phase = "Initialized" /\ Idle
    /\ \E r \in A.block, value \in WriteValues :
        \E fail \in FailsOf(F,
                Len(write_raw_ap_register_repeated(Machine(NoFail), r.ap,
                                                   r.address, value).log)) :
            \E m \in {write_raw_ap_register_repeated(Machine(fail), r.ap,
                        r.address, value)} :
                Do(m, "write_raw_ap_register_repeated",
                   r.ap.dp, r.ap.ap, r.address, value)
    /\ UNCHANGED << phase, setup_runs >>

ApInformation(F, A) ==
    /\ phase = "Initialized" /\ Idle
    /\ \E ap \in A.aps :
        \E fail \in FailsOf(F, Len(ap_information(Machine(NoFail), ap).log)) :
            \E m \in {ap_information(Machine(fail), ap)} :
                Do(m, "ap_information", ap.dp, ap.ap, 0, 0)
    /\ UNCHANGED << phase, setup_runs >>

NumAccessPorts(F, A) ==
    /\ phase = "Initialized" /\ Idle
    /\ \E dp \in A.dps :
        \E fail \in FailsOf(F, Len(num_access_ports(Machine(NoFail), dp).log)) :
            \E m \in {num_access_ports(Machine(fail), dp)} :
                Do(m, "num_access_ports", dp, 0, 0, 0)
    /\ UNCHANGED << phase, setup_runs >>

MemoryInterface(F, A) ==
    /\ phase = "Initialized" /\ Idle
    /\ \E ap \in A.aps :
        \E fail \in FailsOf(F, Len(memory_interface(Machine(NoFail), ap).log)) :
            \E m \in {memory_interface(Machine(fail), ap)} :
                Do(m, "memory_interface", ap.dp, ap.ap, 0, 0)
    /\ UNCHANGED << phase, setup_runs >>

ReadFromRomTable(F, A) ==
    /\ phase = "Initialized" /\ Idle
    /\ \E dp \in A.dps :
        \E fail \in FailsOf(F, Len(read_from_rom_table(Machine(NoFail), dp).log)) :
            \E m \in {read_from_rom_table(Machine(fail), dp)} :
                Do(m, "read_from_rom_table", dp, 0, 0, 0)
    /\ UNCHANGED << phase, setup_runs >>

\* close(): the interface ends, the probe goes back to the caller.
Close ==
    /\ phase = "Initialized" /\ Idle
    /\ phase' = "Closed"
    /\ UNCHANGED << current_dp, dps, use_overrun_detect, hw_dp, hw_select,
                    hw_ctrl, hw_csw, hw_aps, log, last, setup_runs, scans, faults >>

\* The caller takes the result of the operation; the next one can start.
Return ==
    /\ ~Idle
    /\ last' = NoOp
    /\ log' = << >>
    /\ UNCHANGED << phase, current_dp, dps, use_overrun_detect, hw_dp,
                    hw_select, hw_ctrl, hw_csw, hw_aps, setup_runs, scans, faults >>

NextWith(F, A) ==
    \/ Initialize(F)
    \/ ReadDpidr(F)
    \/ ReadRawDpRegister(F, A)
    \/ WriteRawDpRegister(F, A)
    \/ ReadRawApRegister(F, A)
    \/ ReadRawApRegisterRepeated(F, A)
    \/ WriteRawApRegister(F, A)
    \/ WriteRawApRegisterRepeated(F, A)
    \/ ApInformation(F, A)
    \/ NumAccessPorts(F, A)
    \/ MemoryInterface(F, A)
    \/ ReadFromRomTable(F, A)
    \/ Close
    \/ Return

\* Runs in which transport transactions fail and only the interface writes
\* SELECT.
Next == NextWith(Fails, SelectionAccesses)

Spec == Init /\ [][Next]_vars

\* Runs without transport errors, with every kind of access.
NextNoFail == NextWith({NoFail}, AllAccesses)

SpecNoFail == Init /\ [][NextNoFail]_vars

\* Runs on the targets of ScanTopologies, with transport failures.
InitScan == InitWith(ScanTopologies, CswValues)

NextScan == NextWith(Fails, ScanAccesses)

SpecScan == InitScan /\ [][NextScan]_vars

---------------------------------------------------------------------------
(* Properties.  They are stated on the transactions of the operation whose  *)
(* result the caller holds (log), on the record of that operation (last)    *)
(* and on the state it left.                                                *)

InitializedOps ==
    { "read_raw_dp_register", "write_raw_dp_register",
      "read_raw_ap_register", "read_raw_ap_register_repeated",
      "write_raw_ap_register", "write_raw_ap_register_repeated",
      "ap_information", "num_access_ports", "memory_interface",
      "read_from_rom_table" }
DpOps == { "read_raw_dp_register", "write_raw_dp_register" }
ApOps ==
    { "read_raw_ap_register", "read_raw_ap_register_repeated",
      "write_raw_ap_register", "write_raw_ap_register_repeated" }

\* The DP of the operation had its DpState before the operation started.
Known == last.dp \in DOMAIN last.pre_dps

IsSelectDp(e) == e.t = "select_dp"

\* A SELECT write of the selection machinery.
IsSelectWrite(e) ==
    e.by \in { "select_dp_and_dp_bank", "select_ap_and_ap_bank" }

\* A raw register transaction made for an access (not for the selection).
IsAccess(e) ==
    /\ e.t \in { "read", "write", "read_block", "write_block" }
    /\ ~IsSelectWrite(e)

SelectDps == { i \in DOMAIN log : IsSelectDp(log[i]) }
SelectWrites == { i \in DOMAIN log : IsSelectWrite(log[i]) }
Failures == { i \in DOMAIN log : ~log[i].ok }

\* The selectors cached for the DP of transaction i when the call that issued
\* transaction i started: those at the transaction before it for that DP, or
\* those the operation started with.
CacheBefore(i) ==
    LET d    == log[i].dp
        prev == { j \in 1..(i - 1) : log[j].dp = d }
    IN  IF i > 1 /\ log[i - 1].dp = d THEN log[i - 1].cache
        ELSE IF prev # {}
        THEN log[CHOOSE j \in prev : \A k \in prev : k <= j].cache
        ELSE IF d \in DOMAIN last.pre_dps THEN SelectOf(last.pre_dps[d])
        ELSE 0

\* The transaction reaches the register it is meant for.
Reaches(e) ==
    /\ e.port = "AP" =>
          /\ e.hw_dp = e.dp
          /\ ap_sel(e.sel) = e.ap
          /\ ap_bank_sel(e.sel) = e.addr \div 16
    /\ (e.port = "DP" /\ e.dp # None /\ e.addr % 16 = CTRL_ADDRESS) =>
          /\ e.hw_dp = e.dp
          /\ dp_bank_sel(e.sel) = e.addr \div 16

\* C1: in a run without transport errors the selection cache mirrors the
\* hardware: every raw AP transaction is issued while the SELECT register of
\* its DP has the APSEL and APBANKSEL of the access, every raw DP transaction
\* at a banked address while it has the DPBANKSEL of the access.
C1_CacheMirrorsHardware == \A i \in DOMAIN log : Reaches(log[i])

\* C2: a select_dp for the DP that is the cached current DP issues no
\* transaction (num_access_ports, which is select_dp and a lookup, then issues
\* none at all and succeeds); a select_dp for another DP starts with the one
\* "select DP" transaction, and is the only one of a run of the operation
\* without failure.
C2_SelectDpCacheHit ==
    last.op \in InitializedOps =>
        /\ last.pre_dp = last.dp =>
              /\ SelectDps = {}
              /\ last.op = "num_access_ports" =>
                    (log = << >> /\ last.res = "Ok")
        /\ last.pre_dp # last.dp =>
              /\ log # << >>
              /\ IsSelectDp(log[1])
              /\ log[1].val = last.dp
              /\ Failures = {} => Cardinality(SelectDps) = 1

C2_Witness ==
    /\ last.op = "num_access_ports"
    /\ last.pre_dp = last.dp
    /\ last.res = "Ok"
    /\ log = << >>

\* C3: a failed "select DP" transaction clears the cached current DP and the
\* error is returned; whatever the interface does next starts with a "select
\* DP" transaction, for the same DP or another.
C3_FailedSelectClears ==
    /\ \A i \in SelectDps :
          ~log[i].ok =>
              IF i = Len(log)
              THEN current_dp = None /\ last.res # "Ok"
              ELSE IsSelectDp(log[i + 1])
    /\ (last.op \in InitializedOps /\ last.pre_dp = None) =>
          /\ log # << >>
          /\ IsSelectDp(log[1])
          /\ log[1].val = last.dp

\* After a failed selection (the DP has its DpState and no DP is current),
\* the same DP is selected again on the wire.
C3_Witness ==
    /\ last.op \in InitializedOps
    /\ last.pre_dp = None
    /\ Known
    /\ faults > 0
    /\ IsSelectDp(log[1]) /\ log[1].ok /\ log[1].val = last.dp
    /\ current_dp = last.dp

\* C4: when the SELECT write of select_dp_and_dp_bank or of
\* select_ap_and_ap_bank fails, the cache does not keep the selection that was
\* asked for, and an AP access that comes after it for the same AP index and
\* bank is preceded by a SELECT write again.
C4_CacheInvalidatedOnFailure ==
    /\ \A i \in SelectWrites :
          (~log[i].ok /\ i = Len(log)) =>
              LET e  == log[i]
                  st == dps[e.dp]
              IN  IF e.by = "select_ap_and_ap_bank"
                  THEN ~ /\ st.current_apsel = ap_sel(e.val)
                         /\ st.current_apbanksel = ap_bank_sel(e.val)
                  ELSE st.current_dpbanksel # dp_bank_sel(e.val)
    /\ \A j \in SelectWrites : \A i \in DOMAIN log :
          (/\ ~log[j].ok
           /\ j < i
           /\ IsAccess(log[i]) /\ log[i].port = "AP"
           /\ log[i].dp = log[j].dp
           /\ log[i].ap = ap_sel(log[j].val)
           /\ log[i].addr \div 16 = ap_bank_sel(log[j].val)) =>
              \E k \in SelectWrites : j < k /\ k < i

\* C5, as stated: DP register reads and writes at addresses that are not
\* banked issue no SELECT write, the first touch of a DP included.
C5_NoSelectWriteFromAnyState ==
    (last.op \in DpOps /\ last.addr % 16 # CTRL_ADDRESS) => SelectWrites = {}

\* C5: DP register reads and writes at addresses that are not banked, on a
\* DP that has its DpState, issue no SELECT write: at most the "select DP"
\* transaction and the access itself.
C5_NoSelectWriteOnKnownDp ==
    (last.op \in DpOps /\ last.addr % 16 # CTRL_ADDRESS /\ Known) =>
        /\ SelectWrites = {}
        /\ \A i \in DOMAIN log : IsSelectDp(log[i]) \/ log[i].by = "caller"
        /\ Len(log) <= 2

\* A write of DP address 0x8 while the cached DP bank is not zero.
C5_Witness ==
    /\ last.op = "write_raw_dp_register"
    /\ last.addr = SELECT_ADDRESS
    /\ Known
    /\ last.pre_dps[last.dp].current_dpbanksel # 0
    /\ last.res = "Ok"
    /\ Len(log) = 1

\* C6: every SELECT write carries the three selectors, those it does not
\* change with the values cached before: a write of select_ap_and_ap_bank
\* keeps DPBANKSEL, a write of select_dp_and_dp_bank keeps APSEL and
\* APBANKSEL, and the cache after the update is the value written.  An AP
\* access that changes the AP bank alone, and a DP access that changes the DP
\* bank, issue exactly one SELECT write and leave the other cached selectors
\* as they were.
C6_SelectWriteKeepsSelectors ==
    /\ \A i \in SelectWrites :
          LET e   == log[i]
              old == CacheBefore(i)
          IN  /\ e.port = "DP" /\ e.t = "write" /\ e.addr = SELECT_ADDRESS
              /\ e.cache = e.val
              /\ e.by = "select_ap_and_ap_bank" =>
                    dp_bank_sel(e.val) = dp_bank_sel(old)
              /\ e.by = "select_dp_and_dp_bank" =>
                    /\ ap_sel(e.val) = ap_sel(old)
                    /\ ap_bank_sel(e.val) = ap_bank_sel(old)
    /\ (last.op \in ApOps /\ Known /\ \A i \in SelectDps : log[i].ok) =>
          LET pre  == last.pre_dps[last.dp]
              post == dps[last.dp]
          IN  (/\ pre.current_apsel = last.ap
               /\ pre.current_apbanksel # last.addr \div 16) =>
                  /\ Cardinality(SelectWrites) = 1
                  /\ \A i \in SelectWrites :
                        /\ ap_sel(log[i].val) = pre.current_apsel
                        /\ ap_bank_sel(log[i].val) = last.addr \div 16
                        /\ dp_bank_sel(log[i].val) = pre.current_dpbanksel
                  /\ post.current_apsel = pre.current_apsel
                  /\ post.current_dpbanksel = pre.current_dpbanksel
    /\ (last.op \in DpOps /\ Known /\ \A i \in SelectDps : log[i].ok) =>
          LET pre  == last.pre_dps[last.dp]
              post == dps[last.dp]
          IN  (/\ last.addr % 16 = CTRL_ADDRESS
               /\ pre.current_dpbanksel # last.addr \div 16) =>
                  /\ Cardinality(SelectWrites) = 1
                  /\ \A i \in SelectWrites :
                        /\ ap_sel(log[i].val) = pre.current_apsel
                        /\ ap_bank_sel(log[i].val) = pre.current_apbanksel
                        /\ dp_bank_sel(log[i].val) = last.addr \div 16
                  /\ post.current_apsel = pre.current_apsel
                  /\ post.current_apbanksel = pre.current_apbanksel

\* An AP access that changes the AP bank alone, while the cached AP index and
\* DP bank are not zero.
C6_Witness ==
    /\ last.op \in ApOps /\ Known /\ last.res = "Ok"
    /\ last.pre_dps[last.dp].current_apsel = last.ap
    /\ last.ap # 0
    /\ last.pre_dps[last.dp].current_dpbanksel # 0
    /\ last.pre_dps[last.dp].current_apbanksel # last.addr \div 16
    /\ Cardinality(SelectWrites) = 1
    /\ \A i \in SelectWrites :
          /\ ap_sel(log[i].val) = last.ap
          /\ dp_bank_sel(log[i].val) # 0

\* C7: a SELECT write is issued only when the cache disagrees with the
\* access, and at most once per access.  Every raw AP transaction is preceded
\* by a SELECT write exactly when the AP index or the AP bank of the access
\* differs from the cache, one write also when both differ, after which both
\* cached fields are those of the access; a SELECT write of
\* select_dp_and_dp_bank changes the DP bank; a SELECT write follows another
\* one only when that one failed (its access was given up), each that
\* succeeds is followed by the access it was made for.
C7_SelectWriteOnlyOnMismatch ==
    /\ \A i \in DOMAIN log :
          (IsAccess(log[i]) /\ log[i].port = "AP") =>
              LET e   == log[i]
                  has == /\ i > 1
                         /\ IsSelectWrite(log[i - 1])
                         /\ log[i - 1].dp = e.dp
                  old == IF has THEN CacheBefore(i - 1) ELSE CacheBefore(i)
              IN  /\ has <=> (\/ ap_sel(old) # e.ap
                              \/ ap_bank_sel(old) # e.addr \div 16)
                  /\ has => log[i - 1].by = "select_ap_and_ap_bank"
                  /\ ap_sel(e.cache) = e.ap
                  /\ ap_bank_sel(e.cache) = e.addr \div 16
    /\ \A i \in SelectWrites :
          LET e   == log[i]
              old == CacheBefore(i)
          IN  /\ e.by = "select_ap_and_ap_bank" =>
                    \/ ap_sel(e.val) # ap_sel(old)
                    \/ ap_bank_sel(e.val) # ap_bank_sel(old)
              /\ e.by = "select_dp_and_dp_bank" =>
                    dp_bank_sel(e.val) # dp_bank_sel(old)
              /\ i > 1 => ~(IsSelectWrite(log[i - 1]) /\ log[i - 1].ok)
              /\ e.ok => (i < Len(log) /\ IsAccess(log[i + 1])
                                       /\ log[i + 1].dp = e.dp)
    /\ (last.op \in ApOps \cup DpOps /\ Known) => Cardinality(SelectWrites) <= 1

\* An AP access for which the AP index and the AP bank both differ from the
\* cache: one SELECT write.
C7_Witness ==
    /\ last.op \in ApOps /\ Known /\ last.res = "Ok"
    /\ last.pre_dps[last.dp].current_apsel # last.ap
    /\ last.pre_dps[last.dp].current_apbanksel # last.addr \div 16
    /\ Cardinality(SelectWrites) = 1
    /\ dps[last.dp].current_apsel = last.ap
    /\ dps[last.dp].current_apbanksel = last.addr \div 16

\* C8: the bring-up of a DP (DpState, debug_port_start, CTRL, AP scan) starts
\* at most once; an operation never changes the AP list of a DP that had its
\* DpState and never runs debug_port_start for it; ap_information for such a
\* DP issues no AP transaction, and what ap_information returns is always the
\* entry of the list.
C8_DiscoveryAtMostOnce ==
    /\ \A dp \in DPs : scans[dp] <= 1
    /\ \A dp \in DPs : (dp \in DOMAIN dps) <=> (scans[dp] = 1)
    /\ \A dp \in DOMAIN last.pre_dps :
          /\ dp \in DOMAIN dps
          /\ dps[dp].ap_information = last.pre_dps[dp].ap_information
          /\ \A i \in DOMAIN log :
                log[i].dp = dp => log[i].t # "debug_port_start"
    /\ (last.op = "ap_information" /\ Known) =>
          /\ \A i \in DOMAIN log : log[i].port # "AP"
          /\ Len(log) <= 1
          /\ last.res = "Ok" =>
                last.ret = last.pre_dps[last.dp].ap_information[last.ap + 1]
    /\ (last.op = "ap_information" /\ last.res = "Ok") =>
          /\ last.ap < Len(dps[last.dp].ap_information)
          /\ last.ret = dps[last.dp].ap_information[last.ap + 1]

\* ap_information for an AP of a DP that was scanned before, after a switch
\* to another DP and back.
C8_Witness ==
    /\ last.op = "ap_information" /\ Known /\ last.res = "Ok"
    /\ last.pre_dp # last.dp /\ last.pre_dp # None
    /\ last.ret.kind = "MemoryAp"
    /\ scans[last.dp] = 1
    /\ Len(log) = 1

\* C9: the interface is Initialized only after debug_port_setup has run once
\* and succeeded; before that no DP is selected, no DpState exists and no
\* transaction comes from the selection machinery; initialize issues the one
\* debug_port_setup, leaves no current DP and no DpState when it succeeds, and
\* returns the error and no interface when it fails.
C9_InitializedAfterSetup ==
    /\ setup_runs <= 1
    /\ phase \in { "Initialized", "Closed" } => setup_runs = 1
    /\ phase \in { "Uninitialized", "Failed" } =>
          /\ current_dp = None
          /\ dps = << >>
          /\ \A dp \in DPs : scans[dp] = 0
          /\ \A i \in DOMAIN log :
                /\ log[i].by = "caller"
                /\ log[i].t \in { "debug_port_setup", "read" }
    /\ phase = "Uninitialized" => setup_runs = 0
    /\ last.op = "initialize" =>
          /\ Len(log) = 1
          /\ log[1].t = "debug_port_setup"
          /\ last.res = "Ok" <=> log[1].ok
          /\ log[1].ok =>
                (phase = "Initialized" /\ current_dp = None /\ dps = << >>)
          /\ ~log[1].ok => phase = "Failed"

C9_Witness ==
    /\ last.op = "initialize"
    /\ last.res # "Ok"
    /\ phase = "Failed"
    /\ Len(log) = 1

RomCtrlReads ==
    { i \in DOMAIN log : /\ log[i].by = "read_from_rom_table"
                         /\ log[i].port = "DP" /\ log[i].t = "read"
                         /\ log[i].addr = CTRL_ADDRESS }
RomAborts ==
    { i \in DOMAIN log : /\ log[i].by = "read_from_rom_table"
                         /\ log[i].port = "DP" /\ log[i].t = "write"
                         /\ log[i].addr = ABORT_ADDRESS }
\* The AP transactions of the scan loop of read_from_rom_table.
RomScanAccesses ==
    { i \in DOMAIN log : /\ log[i].by = "read_from_rom_table"
                         /\ log[i].port = "AP" }

---------------------------------------------------------------------------
(* The ROM-table walk and the classification of the access ports.          *)

\* The component reads (through DRW) of the scan loop that succeeded.
RomComponentReads ==
    { i \in RomScanAccesses : /\ log[i].t = "read" /\ log[i].ok
                              /\ log[i].addr = DRW_ADDRESS }

\* The access ports of a DP behind which the target has an identifiable ROM
\* table (a class-1 ROM table with a JEP106 code), by index.
RomAps(dp) ==
    { i \in 0..(Len(hw_aps[dp]) - 1) :
        /\ idr_class(hw_aps[dp][i + 1].idr) = ApClass_MemAp
        /\ hw_aps[dp][i + 1].comp = COMP_ROM_JEP106 }

\* C11: the scan loop of read_from_rom_table visits the APs in ascending
\* index; a component read that finds a class-1 ROM table with a JEP106 code
\* is the last transaction of the operation, which returns that AP's
\* identity, and nothing else makes it return one; a class-1 ROM table
\* without a JEP106 code does not end the walk with an identity; in a run
\* without any transport failure the AP returned is the lowest one that has
\* such a ROM table and no AP above it is touched by the scan loop.
C11_FirstMatchWins ==
    last.op = "read_from_rom_table" =>
        /\ \A i, j \in RomScanAccesses :
              i < j => log[i].ap <= log[j].ap
        /\ \A i \in RomComponentReads :
              /\ log[i].val = COMP_ROM_JEP106 =>
                    /\ i = Len(log)
                    /\ last.res = "Ok"
                    /\ last.ret = [kind |-> "Some", ap |-> log[i].ap]
              /\ log[i].val # COMP_ROM_JEP106 =>
                    /\ ~(last.res = "Ok" /\ last.ret.kind = "Some"
                           /\ last.ret.ap = log[i].ap)
                    /\ i = Len(log) =>
                          (last.res = "Ok" /\ last.ret.kind = "None")
        /\ (last.res = "Ok" /\ last.ret.kind = "Some") =>
              /\ Len(log) \in RomComponentReads
              /\ log[Len(log)].val = COMP_ROM_JEP106
        /\ (faults = 0 /\ last.res = "Ok" /\ RomAps(last.dp) # {}) =>
              /\ last.ret.kind = "Some"
              /\ \A k \in RomAps(last.dp) : last.ret.ap <= k
              /\ last.ret.ap \in RomAps(last.dp)
              /\ \A i \in RomScanAccesses : log[i].ap <= last.ret.ap

\* The walk passes a class-1 ROM table without a JEP106 code behind AP 1,
\* returns the identity found behind AP 2, and the target has an AP 3 with an
\* identifiable ROM table too.
C11_Witness ==
    /\ last.op = "read_from_rom_table"
    /\ last.res = "Ok"
    /\ last.ret = [kind |-> "Some", ap |-> 2]
    /\ RomAps(last.dp) = {2, 3}
    /\ \E i \in RomComponentReads :
          log[i].ap = 1 /\ log[i].val = COMP_ROM_NO_JEP

\* No AP of the DP yields a class-1 ROM table: it has no Memory AP, or what is
\* behind each Memory AP is a component of another kind or nothing that
\* parses.
NoRomTable(dp) ==
    \A i \in 1..Len(hw_aps[dp]) :
        idr_class(hw_aps[dp][i].idr) = ApClass_MemAp =>
            hw_aps[dp][i].comp \in {COMP_NONE, COMP_OTHER}

\* C12: a ROM-table walk, none of whose transactions fails, on a DP none of
\* whose APs yields a class-1 ROM table, returns Ok(None) and not an error.
C12_NoRomTableIsNone ==
    (/\ last.op = "read_from_rom_table"
     /\ Failures = {}
     /\ NoRomTable(last.dp)) =>
        (last.res = "Ok" /\ last.ret.kind = "None")


\* The CSW transactions that the classification of AP `ap` of DP `dp` issued
\* in this operation.
ClassifyCsw(dp, ap) ==
    { i \in DOMAIN log : /\ log[i].by = "read_from_target"
                         /\ log[i].port = "AP"
                         /\ log[i].addr = CSW_ADDRESS
                         /\ log[i].dp = dp /\ log[i].ap = ap }

\* The AP was classified as a Memory AP to the end: save, probe, read back
\* and restore all went through.
ClassifiedMemAp(dp, ap) ==
    /\ Cardinality(ClassifyCsw(dp, ap)) = 4
    /\ \A i \in ClassifyCsw(dp, ap) : log[i].ok

\* C13: when the classification of a Memory AP succeeds, its CSW
\* transactions are a read of the value the AP held before the operation, a
\* write of the probe value CSW::new(U8), a read, and last a write of the
\* value first read; unless the operation writes an AP register afterwards,
\* the AP holds after the operation the CSW value it held before it, bit for
\* bit.
C13_CswRestored ==
    \A dp \in DPs : \A ap \in 0..(Len(hw_aps[dp]) - 1) :
        ClassifiedMemAp(dp, ap) =>
            LET S     == ClassifyCsw(dp, ap)
                first == CHOOSE i \in S : \A j \in S : i <= j
                final == CHOOSE i \in S : \A j \in S : j <= i
            IN  /\ log[first].t = "read"
                /\ log[first].val = last.pre_csw[dp][ap + 1]
                /\ \E i \in S : /\ first < i /\ log[i].t = "write"
                                /\ log[i].val = CSW_new(DataSize_U8)
                                /\ \E j \in S : i < j /\ j < final
                                                 /\ log[j].t = "read"
                /\ log[final].t = "write"
                /\ log[final].val = log[first].val
                /\ (\A j \in (final + 1)..Len(log) :
                        ~(log[j].port = "AP"
                            /\ log[j].t \in {"write", "write_block"})) =>
                      hw_csw[dp][ap + 1] = last.pre_csw[dp][ap + 1]

\* A Memory AP whose CSW was programmed before the interface saw it is
\* classified; the probe changed its CSW, and the AP holds the programmed
\* value again.
C13_Witness ==
    /\ last.res = "Ok"
    /\ \E dp \in DPs : \E ap \in 0..(Len(hw_aps[dp]) - 1) :
          /\ ClassifiedMemAp(dp, ap)
          /\ last.pre_csw[dp][ap + 1] = CSW_PROGRAMMED
          /\ hw_csw[dp][ap + 1] = CSW_PROGRAMMED
          /\ \E i \in ClassifyCsw(dp, ap) :
                log[i].t = "read" /\ log[i].val # CSW_PROGRAMMED


\* The stored Memory AP entries, as pairs of a DP and an index into its list.
StoredMemAps ==
    { e \in UNION { { <<dp, i>> : i \in 1..Len(dps[dp].ap_information) } :
                    dp \in DOMAIN dps } :
        dps[e[1]].ap_information[e[2]].kind = "MemoryAp" }

\* The BASE2 reads of the classification.
ClassifyBase2Reads ==
    { i \in DOMAIN log : /\ log[i].by = "read_from_target"
                         /\ log[i].port = "AP"
                         /\ log[i].addr = BASE2_ADDRESS }

\* C14: the debug base address stored for a Memory AP has, as its low half,
\* the BASE register of that AP with the low twelve bits cleared (every
\* address bit of BASE kept), and as its high half BASE2 when bit 1 of BASE
\* says ADIv5 format, zero otherwise; the classification reads BASE2 of an
\* AP only when its BASE has the ADIv5 format, and always then.
C14_DebugBaseAddress ==
    /\ \A e \in StoredMemAps :
          LET info == dps[e[1]].ap_information[e[2]]
              hw   == hw_aps[e[1]][info.address.ap + 1]
              ext  == (hw.base \div 2) % 2 = 1
          IN  /\ info.debug_base_address.lo = hw.base - (hw.base % 4096)
              /\ info.debug_base_address.hi = IF ext THEN hw.base2 ELSE 0
    /\ \A i \in ClassifyBase2Reads :
          (hw_aps[log[i].dp][log[i].ap + 1].base \div 2) % 2 = 1
    /\ \A dp \in DPs : \A ap \in 0..(Len(hw_aps[dp]) - 1) :
          (ClassifiedMemAp(dp, ap)
             /\ (hw_aps[dp][ap + 1].base \div 2) % 2 = 1) =>
                \E i \in ClassifyBase2Reads :
                    log[i].dp = dp /\ log[i].ap = ap /\ log[i].ok

\* BASE = 0x1003 (address bits 0x1000, ADIv5 format) and BASE2 = 1 are stored
\* as 0x1_0000_1000, next to an AP of the same list whose BASE2 was read too
\* and is zero.
C14_Witness ==
    \E e, f \in StoredMemAps :
        /\ e[1] = f[1]
        /\ hw_aps[e[1]][e[2]].base = BASE_ADIV5
        /\ hw_aps[e[1]][e[2]].base2 = 1
        /\ dps[e[1]].ap_information[e[2]].debug_base_address
              = [hi |-> 1, lo |-> 4096]
        /\ dps[f[1]].ap_information[f[2]].debug_base_address
              = [hi |-> 0, lo |-> 4096]

\* A legacy-format BASE is stored with a zero high half although the AP's
\* BASE2 reads as one; BASE2 was not read.
C14_WitnessLegacy ==
    \E e \in StoredMemAps :
        /\ hw_aps[e[1]][e[2]].base = BASE_LEGACY
        /\ hw_aps[e[1]][e[2]].base2 = 1
        /\ dps[e[1]].ap_information[e[2]].debug_base_address.hi = 0
        /\ ClassifyBase2Reads = {}
        /\ ClassifiedMemAp(e[1], e[2] - 1)

\* The highest address bits the model holds survive the shift.
C14_WitnessHigh ==
    \E e \in StoredMemAps :
        /\ hw_aps[e[1]][e[2]].base = BASE_HIGH
        /\ dps[e[1]].ap_information[e[2]].debug_base_address
              = [hi |-> 1, lo |-> ((2 ^ 19) - 1) * (2 ^ 12)]


---------------------------------------------------------------------------
(* Errors.                                                                 *)

\* The results that hand the error of the transport to the caller: the
\* error itself, or a wrapper that carries it.
CarriesTransportError == { "Transport", "Probe", "ArchitectureSpecific" }

\* C15: an operation of the initialized interface in which a transaction
\* fails on the transport ends with that transaction (nothing is issued
\* after it, so nothing is retried) and returns the transport's error.
C15_TransportErrorsUnchanged ==
    (last.op \in InitializedOps /\ Failures # {}) =>
        /\ Failures = {Len(log)}
        /\ last.res \in CarriesTransportError


\* C16: ap_information(ap) returns the transport's error when the selection
\* of ap.dp fails (its last transaction failed), "AP does not exist" when
\* the selection succeeded and ap.ap is not below the length of the AP list
\* of that DP, and the entry ap.ap of the list otherwise; the lookup issues
\* no transaction of its own (the only transaction not issued by the
\* bring-up of select_dp is the DP-select transaction), and on a DP that is
\* already known the operation issues no AP transaction and leaves the AP
\* list as it was.
C16_ApDoesNotExist ==
    last.op = "ap_information" =>
        /\ last.res \in { "Ok", "ApDoesNotExist", "Transport" }
        /\ last.res = "Transport" => Len(log) \in Failures
        /\ last.res # "Transport" =>
              /\ current_dp = last.dp
              /\ last.dp \in DOMAIN dps
              /\ last.res = "ApDoesNotExist" <=>
                    last.ap >= Len(dps[last.dp].ap_information)
              /\ last.res = "Ok" =>
                    last.ret = dps[last.dp].ap_information[last.ap + 1]
              /\ Len(log) \notin Failures \/ ~Known
        /\ \A i \in DOMAIN log :
              log[i].by = "caller" => (log[i].t = "select_dp" /\ i = 1)
        /\ Known =>
              /\ \A i \in DOMAIN log : log[i].port # "AP"
              /\ dps[last.dp].ap_information
                    = last.pre_dps[last.dp].ap_information

\* An AP index above the discovered ones is asked for on a DP that is known
\* and has APs; nothing failed and the answer is "AP does not exist".
C16_Witness ==
    /\ last.op = "ap_information" /\ Known
    /\ last.res = "ApDoesNotExist"
    /\ Failures = {}
    /\ dps[last.dp].ap_information # << >>
    /\ last.ap >= Len(hw_aps[last.dp])


\* C17: memory_interface(ap) returns a handle only when the entry stored for
\* the AP is a Memory AP, and the handle is made from that entry; when the
\* stored entry is of kind Other the result is the error "is not a memory
\* AP" and no handle; memory_interface issues no transaction of its own, and
\* on a DP that is already known the operation issues no AP transaction.
C17_HandleOnlyForMemoryAp ==
    last.op = "memory_interface" =>
        LET list == IF last.dp \in DOMAIN dps
                    THEN dps[last.dp].ap_information ELSE << >>
        IN  /\ last.res \in { "Ok", "NotMemoryAp", "FailedToGetInformation" }
            /\ last.res = "Ok" =>
                  /\ last.ap < Len(list)
                  /\ list[last.ap + 1].kind = "MemoryAp"
                  /\ last.ret = [kind |-> "Memory",
                                 information |-> list[last.ap + 1]]
            /\ last.res = "NotMemoryAp" =>
                  /\ last.ap < Len(list)
                  /\ list[last.ap + 1].kind = "Other"
                  /\ last.ret = NoRet
            /\ (last.ap < Len(list) /\ list[last.ap + 1].kind = "Other"
                  /\ Len(log) \notin Failures) =>
                  last.res = "NotMemoryAp"
            /\ \A i \in DOMAIN log :
                  log[i].by = "caller" => (log[i].t = "select_dp" /\ i = 1)
            /\ Known => \A i \in DOMAIN log : log[i].port # "AP"

\* A handle is asked for an AP of another class on a DP that is known: the
\* answer is the classification error, and no transaction was needed.
C17_Witness ==
    /\ last.op = "memory_interface" /\ Known
    /\ last.res = "NotMemoryAp"
    /\ last.ret = NoRet
    /\ log = << >>
    /\ idr_class(hw_aps[last.dp][last.ap + 1].idr) # ApClass_MemAp


---------------------------------------------------------------------------
(* The AP list of a DP.                                                    *)

\* C18: between operations the AP list of every known DP is empty or has one
\* entry for every AP of the DP, and a successful num_access_ports(dp)
\* returns the number of APs of the DP.
C18_ListEmptyOrComplete ==
    /\ \A dp \in DOMAIN dps :
          \/ dps[dp].ap_information = << >>
          \/ Len(dps[dp].ap_information) = Len(hw_aps[dp])
    /\ (last.op = "num_access_ports" /\ last.res = "Ok") =>
          last.ret = [kind |-> "Count", n |-> Len(hw_aps[last.dp])]


\* C19: for every known DP, the i-th entry of ap_information (counting from
\* zero) carries the address of AP i of that DP, whatever its kind, and it
\* has the kind that the IDR of AP i gives.
C19_EntryIsApOfItsIndex ==
    \A dp \in DOMAIN dps :
        \A i \in 1..Len(dps[dp].ap_information) :
            LET info == dps[dp].ap_information[i]
            IN  /\ info.address = [dp |-> dp, ap |-> i - 1]
                /\ i <= Len(hw_aps[dp])
                /\ (info.kind = "MemoryAp") <=>
                      (idr_class(hw_aps[dp][i].idr) = ApClass_MemAp)
                /\ info.kind \in { "MemoryAp", "Other" }

\* A DP with four APs is scanned: the entries of both kinds are at their
\* own index.
C19_Witness ==
    \E dp \in DOMAIN dps :
        /\ Len(dps[dp].ap_information) = 4
        /\ dps[dp].ap_information[1] =
              [kind |-> "Other", address |-> [dp |-> dp, ap |-> 0]]
        /\ dps[dp].ap_information[4].kind = "MemoryAp"
        /\ dps[dp].ap_information[4].address = [dp |-> dp, ap |-> 3]


---------------------------------------------------------------------------
(* The bring-up of a DP.                                                   *)

\* The DP of the operation had no DpState and its DP-select transaction went
\* through: the operation brings the DP up.
BringsUp ==
    /\ last.op \in InitializedOps
    /\ ~Known
    /\ log # << >>
    /\ log[1].t = "select_dp" /\ log[1].ok

\* The AP register transactions, and the SELECT writes made for them.
ApTransactions ==
    { i \in DOMAIN log : \/ log[i].port = "AP"
                         \/ log[i].by = "select_ap_and_ap_bank" }

\* The transactions of the classification (read_from_target and the SELECT
\* writes made for it are told apart by the AP they are for).
ClassifyReads ==
    { i \in DOMAIN log : log[i].by = "read_from_target" }

---------------------------------------------------------------------------
(* The current DP and the DP states.                                       *)

\* The raw register transactions of the operation.
RegisterTransactions ==
    { i \in DOMAIN log :
        log[i].t \in { "read", "write", "read_block", "write_block" } }

\* The DP the last "select DP" transaction before transaction i switched the
\* wire to (None when it failed); the DP that was current when the operation
\* started if there is none in the operation.
SelectedBefore(i) ==
    LET prev == { j \in SelectDps : j < i }
    IN  IF prev = {} THEN last.pre_dp
        ELSE LET j == CHOOSE x \in prev : \A y \in prev : y <= x
             IN  IF log[j].ok THEN log[j].val ELSE None

\* C21: when a DP is cached as the current one, the wire is on that DP (the
\* last "select DP" transaction was for it and went through) and the DP has
\* its DpState; every raw DP or AP register transaction of an operation of
\* the initialized interface is issued while the wire is on the DP the
\* access names, that DP being the one selected last.
C21_CurrentDpAgreesWithTransport ==
    /\ current_dp # None =>
          /\ hw_dp = current_dp
          /\ current_dp \in DOMAIN dps
    /\ last.op \in InitializedOps =>
          /\ \A i \in RegisterTransactions :
                /\ log[i].hw_dp = log[i].dp
                /\ SelectedBefore(i) = log[i].dp
          /\ current_dp = SelectedBefore(Len(log) + 1)

\* After a failed selection somewhere in the run, an access goes from one DP
\* to the other: the wire is switched once and the register transaction is
\* issued on the DP it names.
C21_Witness ==
    /\ last.op \in InitializedOps
    /\ faults > 0
    /\ last.pre_dp \notin { None, last.dp }
    /\ last.pre_dps # << >> /\ Known
    /\ last.res = "Ok"
    /\ Cardinality(SelectDps) = 1
    /\ RegisterTransactions # {}
    /\ hw_dp = last.dp /\ current_dp = last.dp


\* The access of the operation asks for a selection that the DpState of its
\* DP held when the operation started.
SelectionUnchanged ==
    /\ Known
    /\ last.op \in ApOps =>
          /\ last.pre_dps[last.dp].current_apsel = last.ap
          /\ last.pre_dps[last.dp].current_apbanksel = last.addr \div 16
    /\ last.op \in DpOps =>
          \/ last.addr % 16 # CTRL_ADDRESS
          \/ last.pre_dps[last.dp].current_dpbanksel = last.addr \div 16

\* C22: an operation addressed to a DP leaves the DpState of every other DP
\* as it was (cached DP bank, AP index, AP bank, AP list), removes no DpState
\* and issues register transactions for its own DP only; a register access
\* that comes back to a DP after another DP was current finds the selectors
\* of its DP as they were left and, when they are the ones it needs, issues
\* no SELECT write.
C22_DpStatesIsolated ==
    last.op \in InitializedOps =>
        /\ \A dp \in DOMAIN last.pre_dps :
              /\ dp \in DOMAIN dps
              /\ dp # last.dp => dps[dp] = last.pre_dps[dp]
        /\ \A dp \in DOMAIN dps :
              dp \in DOMAIN last.pre_dps \/ dp = last.dp
        /\ \A i \in RegisterTransactions : log[i].dp = last.dp
        /\ (last.op \in (DpOps \cup ApOps) /\ SelectionUnchanged) =>
              /\ SelectWrites = {}
              /\ Failures = {} =>
                    dps[last.dp] = last.pre_dps[last.dp]

\* An AP register is accessed on DP 1, DP 2 is brought up and used, and the
\* same AP register of DP 1 is accessed again: one "select DP" transaction,
\* the access, and no SELECT write in between.
C22_Witness ==
    /\ last.op \in ApOps
    /\ last.pre_dp \notin { None, last.dp }
    /\ last.pre_dp \in DOMAIN dps
    /\ SelectionUnchanged
    /\ last.pre_dps[last.dp].current_apbanksel # 0
    /\ last.res = "Ok"
    /\ Len(log) = 2
    /\ IsSelectDp(log[1]) /\ IsAccess(log[2])
    /\ faults = 0 /\ Reaches(log[2])
    /\ dps[last.dp].ap_information # << >>


---------------------------------------------------------------------------
(* The classification that fails after the probe write.                    *)

\* What the AP holds in CSW after the probe value was written to it.
ProbedCsw(dp, ap) ==
    IF hw_aps[dp][ap + 1].only32
    THEN SetField(CSW_new(DataSize_U8), 0, 3, DataSize_U32)
    ELSE CSW_new(DataSize_U8)

\* The classification of the AP wrote the probe value and failed after that:
\* its last CSW transaction failed and is the read-back or the restore.
FailedAfterProbe(dp, ap) ==
    LET S == ClassifyCsw(dp, ap)
    IN  /\ Cardinality(S) >= 3
        /\ \E i \in S : /\ ~log[i].ok
                        /\ \A j \in S : j <= i
                        /\ Cardinality({ j \in S : j < i /\ log[j].ok }) >= 2

\* C23: when the read-back of CSW that follows the probe write fails, the
\* classification issues no CSW transaction after it (no restoring write),
\* the operation does not record the AP, and the AP keeps the CSW the probe
\* write left in it; the same holds when the restoring write itself fails.
\* The CSW then differs from the original one unless the original was the
\* probe value.
C23_NoRestoreOnErrorPath ==
    \A dp \in DPs : \A ap \in 0..(Len(hw_aps[dp]) - 1) :
        LET S == ClassifyCsw(dp, ap)
        IN  /\ \A i \in S :
                  ~log[i].ok => \A j \in S : j <= i
            /\ FailedAfterProbe(dp, ap) =>
                  /\ \A i \in S : (log[i].t = "write" /\ log[i].ok) =>
                                      log[i].val = CSW_new(DataSize_U8)
                  /\ Len(dps[dp].ap_information) <= ap
                  /\ hw_csw[dp][ap + 1] = ProbedCsw(dp, ap)
                  /\ last.pre_csw[dp][ap + 1] # ProbedCsw(dp, ap) =>
                        hw_csw[dp][ap + 1] # last.pre_csw[dp][ap + 1]

\* The read-back fails for an AP whose CSW was programmed: three CSW
\* transactions, an error for the caller, and the probe value left in the AP.
C23_Witness ==
    /\ last.res # "Ok"
    /\ \E dp \in DPs : \E ap \in 0..(Len(hw_aps[dp]) - 1) :
          /\ FailedAfterProbe(dp, ap)
          /\ Cardinality(ClassifyCsw(dp, ap)) = 3
          /\ last.pre_csw[dp][ap + 1] = CSW_PROGRAMMED
          /\ hw_csw[dp][ap + 1] = CSW_new(DataSize_U8)

====
